---- MODULE Spec2Model ----
(***************************************************************************)
(* The request layer of the urban online workflow frontend                 *)
(* (frontend/src/requests.js): eleven async functions, seven of which      *)
(* issue one window.fetch against the REST backend and four of which       *)
(* resolve locally.  The backend lives outside frontend/src; it is         *)
(* modelled from the interface table of the specification.                 *)
(*                                                                         *)
(* JavaScript values are tagged records, a promise is a record with a      *)
(* state, and a call is followed from its invocation through the fetch to  *)
(* the value its promise settles with.                                     *)
(***************************************************************************)
EXTENDS Integers, Sequences, FiniteSets, TLC

MaxSessions == 1
MaxScenarios == 2
MaxJobs == 1
MaxPatterns == 2
\* getRandomValues(new Uint8Array(1))[0] draws from 0..255; the model draws
\* from the prefix 0..MaxRandom of that range.
MaxRandom == 1

VARIABLES
    sessions,    \* backend: number of sessions created (ids 1..sessions)
    scenarios,   \* backend: sequence of scenario records (id = index)
    jobs,        \* backend: sequence of job statuses (id = index)
    call,        \* the caller's current (or last settled) client call
    patternIDs,  \* history: the ids createPattern has returned, in order
    made         \* history: what makeScenario was given for each id it returned

vars == <<sessions, scenarios, jobs, call, patternIDs, made>>

----------------------------------------------------------------------------
(* JavaScript values *)

Undefined == [t |-> "undefined"]
Str(s) == [t |-> "string", v |-> s]
Num(n) == [t |-> "number", v |-> n]
Obj(f) == [t |-> "object", v |-> f]
Arr(s) == [t |-> "array", v |-> s]

\* o[k] for a property read that does not throw
Get(o, k) == IF o.t = "object" /\ k \in DOMAIN o.v THEN o.v[k] ELSE Undefined

Range(s) == {s[i] : i \in DOMAIN s}

\* `${n}` for a number: its decimal text
Template(n) == ToString(n)

IdRange == 0..(MaxSessions + MaxScenarios + MaxJobs + MaxRandom + 1)

\* the integer a path segment spells, -1 when it spells none
ParseInt(s) ==
    IF \E n \in IdRange : ToString(n) = s
    THEN CHOOSE n \in IdRange : ToString(n) = s
    ELSE -1

\* JSON.stringify of an object: keys whose value is undefined are left out
JSONstringify(o) ==
    [kind |-> "json",
     json |-> Obj([k \in {q \in DOMAIN o.v : o.v[q] # Undefined} |-> o.v[k]])]

NoBody == [kind |-> "none"]
Garbage == [kind |-> "garbage"]

----------------------------------------------------------------------------
(* Promises *)

Fulfilled(v) == [state |-> "fulfilled", value |-> v]
Rejected(e) == [state |-> "rejected", value |-> Str(e)]
Pending == [state |-> "pending"]

\* .catch((error) => console.log(error)): console.log returns undefined
catchLog(p) == IF p.state = "rejected" THEN Fulfilled(Undefined) ELSE p

\* fetch(...).then((response) => response.json())
thenJson(c) ==
    IF c.phase = "rejected" THEN Rejected("TypeError")
    ELSE IF c.resp.body.kind # "json" THEN Rejected("SyntaxError")
    ELSE Fulfilled(c.resp.body.json)

----------------------------------------------------------------------------
(* The wire requests of the client functions *)

Request(method, path, contentType, body) ==
    [method |-> method, path |-> path, contentType |-> contentType, body |-> body]

NoRequest == [method |-> "none"]
NoResponse == [status |-> 0]

RECURSIVE JoinCoords(_)
\* targetCoords.map((coords) => `${coords[0]} ${coords[1]}`).join(', '),
\* as the sequence of the text's pieces
JoinCoords(targetCoords) ==
    IF targetCoords = <<>> THEN <<>>
    ELSE LET first == <<Template(Head(targetCoords)[1]), " ",
                        Template(Head(targetCoords)[2])>>
         IN  IF Len(targetCoords) = 1 THEN first
             ELSE first \o <<", ">> \o JoinCoords(Tail(targetCoords))

\* `POLYGON((${...}))`
targetWKT(targetCoords) == <<"POLYGON((">> \o JoinCoords(targetCoords) \o <<"))">>

createSessionRequest ==
    Request("post", <<"users">>, "application/json", NoBody)

getAllScenariosRequest(sessionID) ==
    Request("get", <<"scenarios", Template(sessionID)>>, "none", NoBody)

getScenarioRequest(id) ==
    Request("get", <<"scenario", Template(id)>>, "none", NoBody)

\* makeScenario with the description left out of the body
makeScenarioRequestNameOnly(sessionID, name, description) ==
    Request("post", <<"scenario", Template(sessionID)>>, "application/json",
            JSONstringify(Obj("name" :> name)))

makeScenarioRequest(sessionID, name, description) ==
    Request("post", <<"scenario", Template(sessionID)>>, "application/json",
            JSONstringify(Obj(("name" :> name) @@ ("description" :> description))))

getJobStatusRequest(jobID) ==
    Request("get", <<"job", Template(jobID)>>, "none", NoBody)

doWallpaperRequest(targetCoords, patternID, scenarioID) ==
    Request("post", <<"wallpaper">>, "application/json",
            JSONstringify(Obj(("scenario_id" :> Num(scenarioID))
                           @@ ("target_parcel_wkt" :> Str(targetWKT(targetCoords)))
                           @@ ("pattern_id" :> Num(patternID)))))

getPatternsRequest(sessionID) ==
    Request("get", <<"pattern", Template(sessionID)>>, "none", NoBody)

----------------------------------------------------------------------------
(* What each client function's promise settles with.  c is the call, whose *)
(* fetch has either been answered (c.resp) or has rejected.                *)

createSession(c) == catchLog(thenJson(c))

getAllScenarios(c) == catchLog(thenJson(c))

getScenario(c) == catchLog(thenJson(c))

\* .then((json) => json.scenario_id): reading a property of null or
\* undefined throws, any other value yields the property or undefined
makeScenario(c) ==
    LET p == thenJson(c)
    IN  catchLog(IF p.state = "rejected" THEN p
                 ELSE IF p.value.t \in {"undefined", "null"} THEN Rejected("TypeError")
                 ELSE Fulfilled(Get(p.value, "scenario_id")))

\* .then((response) => response.json().status): response.json() is a
\* promise, and a promise has no status property
getJobStatus(c) ==
    catchLog(IF c.phase = "rejected" THEN Rejected("TypeError")
             ELSE Fulfilled(Undefined))

doWallpaper(c) == catchLog(thenJson(c))

getPatterns(c) == catchLog(thenJson(c))

convertToSingleLULC == Fulfilled(Str("fooJobID"))

\* r: the five random draws, in the order the object literal makes them
getWallpaperResults(r) ==
    Fulfilled(Obj(("forest" :> Num(r[1])) @@ ("housing" :> Num(r[2]))
               @@ ("grass" :> Num(r[3])) @@ ("commercial" :> Num(r[4]))
               @@ ("orchard" :> Num(r[5]))))

getLulcTableForParcel(r) ==
    Fulfilled(Obj(("forest" :> Num(r[1])) @@ ("grass" :> Num(r[2]))
               @@ ("housing" :> Num(r[3])) @@ ("commercial" :> Num(r[4]))
               @@ ("orchard" :> Num(r[5]))))

\* getLulcCodes with the fifth category renamed
getLulcCodesRenamed ==
    Fulfilled(Obj(("1" :> Str("forest")) @@ ("2" :> Str("grass"))
               @@ ("3" :> Str("housing")) @@ ("4" :> Str("commercial"))
               @@ ("5" :> Str("orchards"))))

getLulcCodes ==
    Fulfilled(Obj(("1" :> Str("forest")) @@ ("2" :> Str("grass"))
               @@ ("3" :> Str("housing")) @@ ("4" :> Str("commercial"))
               @@ ("5" :> Str("orchard"))))

\* r: the random draw
createPattern(r) == Fulfilled(Num(r))

----------------------------------------------------------------------------
(* The backend, from the interface table: what a request does to the       *)
(* stored sessions, scenarios and jobs, and the response it gets.          *)

Ok(v) == [status |-> 200, body |-> [kind |-> "json", json |-> v]]
NotFound == [status |-> 404, body |-> [kind |-> "json", json |-> Obj("detail" :> Str("Not Found"))]]
Unprocessable == [status |-> 422, body |-> [kind |-> "json", json |-> Obj("detail" :> Str("Unprocessable"))]]

Unchanged(resp) ==
    [sessions |-> sessions, scenarios |-> scenarios, jobs |-> jobs, resp |-> resp]

\* the fields of a create-scenario body that a scenario record keeps
ScenarioFields(json) ==
    [k \in (DOMAIN json.v) \cap {"name", "description"} |-> json.v[k]]

PostUsers ==
    [sessions |-> sessions + 1, scenarios |-> scenarios, jobs |-> jobs,
     resp |-> Ok(Obj("session_id" :> Num(sessions + 1)))]

GetScenarios(sid) ==
    IF sid \notin 1..sessions THEN Unchanged(NotFound)
    ELSE Unchanged(Ok(Arr(SelectSeq(scenarios,
                                    LAMBDA sc : sc.v["sessionID"] = Num(sid)))))

GetScenarioById(id) ==
    IF id \notin 1..Len(scenarios) THEN Unchanged(NotFound)
    ELSE Unchanged(Ok(scenarios[id]))

PostScenario(sid, body) ==
    IF sid \notin 1..sessions THEN Unchanged(NotFound)
    ELSE IF body.kind # "json" \/ "name" \notin DOMAIN body.json.v
    THEN Unchanged(Unprocessable)
    ELSE LET id == Len(scenarios) + 1
             record == Obj(("id" :> Num(id)) @@ ("sessionID" :> Num(sid))
                           @@ ScenarioFields(body.json))
         IN  [sessions |-> sessions, scenarios |-> Append(scenarios, record),
              jobs |-> jobs, resp |-> Ok(Obj("scenario_id" :> Num(id)))]

GetJob(id) ==
    IF id \notin 1..Len(jobs) THEN Unchanged(NotFound)
    ELSE Unchanged(Ok(Obj("status" :> Str(jobs[id]))))

PostWallpaper(body) ==
    IF body.kind # "json" THEN Unchanged(Unprocessable)
    ELSE [sessions |-> sessions, scenarios |-> scenarios,
          jobs |-> Append(jobs, "queued"),
          resp |-> Ok(Obj("job_id" :> Num(Len(jobs) + 1)))]

GetPattern(sid) ==
    IF sid \notin 1..sessions THEN Unchanged(NotFound)
    ELSE Unchanged(Ok(Arr(<<>>)))

Backend(req) ==
    LET m == req.method
        p == req.path
        n == IF Len(p) = 2 THEN ParseInt(p[2]) ELSE -1
    IN  CASE m = "post" /\ p = <<"users">> -> PostUsers
          [] m = "get" /\ Len(p) = 2 /\ p[1] = "scenarios" -> GetScenarios(n)
          [] m = "get" /\ Len(p) = 2 /\ p[1] = "scenario" -> GetScenarioById(n)
          [] m = "post" /\ Len(p) = 2 /\ p[1] = "scenario" -> PostScenario(n, req.body)
          [] m = "get" /\ Len(p) = 2 /\ p[1] = "job" -> GetJob(n)
          [] m = "post" /\ p = <<"wallpaper">> -> PostWallpaper(req.body)
          [] m = "get" /\ Len(p) = 2 /\ p[1] = "pattern" -> GetPattern(n)
          [] OTHER -> Unchanged(NotFound)

----------------------------------------------------------------------------
(* The caller's inputs *)

SessionIDs == 1..MaxSessions
ScenarioIDs == 1..MaxScenarios
JobIDs == 1..MaxJobs
Draws == 0..MaxRandom
Names == {Str("park")}
Descriptions == {Str("city park"), Undefined}
PatternNames == {"park"}
Geometries ==
    { << <<0, 0>>, <<0, 1>> >>,
      << <<0, 0>>, <<0, 1>>, <<1, 1>>, <<0, 0>> >>,
      << <<0, 0>>, <<0, 1>>, <<1, 1>>, <<1, 0>> >> }

StatusOf(jobID) == IF jobID \in 1..Len(jobs) THEN jobs[jobID] ELSE "unknown"

----------------------------------------------------------------------------
(* Calls *)

NoCall ==
    [op |-> "none", args |-> <<>>, phase |-> "idle", req |-> NoRequest,
     resp |-> NoResponse, fetches |-> 0, transport |-> "none",
     result |-> Pending, seen |-> "none"]

\* a function that has called window.fetch once and awaits it
Fetching(op, args, req) ==
    [op |-> op, args |-> args, phase |-> "fetching", req |-> req,
     resp |-> NoResponse, fetches |-> 1, transport |-> "pending",
     result |-> Pending, seen |-> "none"]

\* a function that has returned Promise.resolve(...) without any fetch;
\* seen is the job's status as the call was made
Local(op, args, result, seen) ==
    [op |-> op, args |-> args, phase |-> "returned", req |-> NoRequest,
     resp |-> NoResponse, fetches |-> 0, transport |-> "none",
     result |-> result, seen |-> seen]

\* the caller makes one call at a time
Ready == call.phase \in {"idle", "returned"}

Init ==
    /\ sessions = 0
    /\ scenarios = <<>>
    /\ jobs = <<>>
    /\ call = NoCall
    /\ patternIDs = <<>>
    /\ made = {}

CallCreateSession ==
    /\ Ready
    /\ sessions < MaxSessions
    /\ call' = Fetching("createSession", <<>>, createSessionRequest)
    /\ UNCHANGED <<sessions, scenarios, jobs, patternIDs, made>>

CallGetAllScenarios ==
    /\ Ready
    /\ \E sessionID \in SessionIDs :
          call' = Fetching("getAllScenarios", [sessionID |-> sessionID],
                           getAllScenariosRequest(sessionID))
    /\ UNCHANGED <<sessions, scenarios, jobs, patternIDs, made>>

CallGetScenario ==
    /\ Ready
    /\ \E id \in ScenarioIDs :
          call' = Fetching("getScenario", [id |-> id], getScenarioRequest(id))
    /\ UNCHANGED <<sessions, scenarios, jobs, patternIDs, made>>

CallMakeScenario ==
    /\ Ready
    /\ Len(scenarios) < MaxScenarios
    /\ \E sessionID \in SessionIDs, name \in Names, description \in Descriptions :
          call' = Fetching("makeScenario",
                           [sessionID |-> sessionID, name |-> name,
                            description |-> description],
                           makeScenarioRequest(sessionID, name, description))
    /\ UNCHANGED <<sessions, scenarios, jobs, patternIDs, made>>

CallGetJobStatus ==
    /\ Ready
    /\ \E jobID \in JobIDs :
          call' = Fetching("getJobStatus", [jobID |-> jobID],
                           getJobStatusRequest(jobID))
    /\ UNCHANGED <<sessions, scenarios, jobs, patternIDs, made>>

CallDoWallpaper ==
    /\ Ready
    /\ Len(jobs) < MaxJobs
    /\ \E targetCoords \in Geometries, patternID \in Draws, scenarioID \in ScenarioIDs :
          call' = Fetching("doWallpaper",
                           [targetCoords |-> targetCoords, patternID |-> patternID,
                            scenarioID |-> scenarioID],
                           doWallpaperRequest(targetCoords, patternID, scenarioID))
    /\ UNCHANGED <<sessions, scenarios, jobs, patternIDs, made>>

CallGetPatterns ==
    /\ Ready
    /\ \E sessionID \in SessionIDs :
          call' = Fetching("getPatterns", [sessionID |-> sessionID],
                           getPatternsRequest(sessionID))
    /\ UNCHANGED <<sessions, scenarios, jobs, patternIDs, made>>

CallConvertToSingleLULC ==
    /\ Ready
    /\ \E geom \in Geometries, lulcCode \in DOMAIN getLulcCodes.value.v :
          call' = Local("convertToSingleLULC", [geom |-> geom, lulcCode |-> lulcCode],
                        convertToSingleLULC, "none")
    /\ UNCHANGED <<sessions, scenarios, jobs, patternIDs, made>>

CallGetWallpaperResults ==
    /\ Ready
    /\ \E jobID \in JobIDs, r \in [1..5 -> Draws] :
          call' = Local("getWallpaperResults", [jobID |-> jobID],
                        getWallpaperResults(r), StatusOf(jobID))
    /\ UNCHANGED <<sessions, scenarios, jobs, patternIDs, made>>

CallGetLulcTableForParcel ==
    /\ Ready
    /\ \E geom \in Geometries, r \in [1..5 -> Draws] :
          call' = Local("getLulcTableForParcel", [geom |-> geom],
                        getLulcTableForParcel(r), "none")
    /\ UNCHANGED <<sessions, scenarios, jobs, patternIDs, made>>

CallGetLulcCodes ==
    /\ Ready
    /\ call' = Local("getLulcCodes", <<>>, getLulcCodes, "none")
    /\ UNCHANGED <<sessions, scenarios, jobs, patternIDs, made>>

CallCreatePattern ==
    /\ Ready
    /\ Len(patternIDs) < MaxPatterns
    /\ \E geom \in Geometries, name \in PatternNames, r \in Draws :
          /\ call' = Local("createPattern", [geom |-> geom, name |-> name],
                           createPattern(r), "none")
          /\ patternIDs' = Append(patternIDs, createPattern(r).value.v)
    /\ UNCHANGED <<sessions, scenarios, jobs, made>>

----------------------------------------------------------------------------
(* The network and the promise chain *)

\* the backend handles the request and its response arrives
Respond ==
    /\ call.phase = "fetching"
    /\ LET b == Backend(call.req)
       IN  /\ sessions' = b.sessions
           /\ scenarios' = b.scenarios
           /\ jobs' = b.jobs
           /\ call' = [call EXCEPT !.phase = "responded", !.resp = b.resp,
                                   !.transport = "ok"]
    /\ UNCHANGED <<patternIDs, made>>

\* the backend handles the request, but what arrives is not JSON
RespondGarbled ==
    /\ call.phase = "fetching"
    /\ LET b == Backend(call.req)
       IN  /\ sessions' = b.sessions
           /\ scenarios' = b.scenarios
           /\ jobs' = b.jobs
           /\ call' = [call EXCEPT !.phase = "responded",
                                   !.resp = [status |-> b.resp.status, body |-> Garbage],
                                   !.transport = "garbled"]
    /\ UNCHANGED <<patternIDs, made>>

\* the request never reaches the backend: fetch rejects
FetchReject ==
    /\ call.phase = "fetching"
    /\ call' = [call EXCEPT !.phase = "rejected", !.transport = "failed"]
    /\ UNCHANGED <<sessions, scenarios, jobs, patternIDs, made>>

Settled(c) ==
    CASE c.op = "createSession" -> createSession(c)
      [] c.op = "getAllScenarios" -> getAllScenarios(c)
      [] c.op = "getScenario" -> getScenario(c)
      [] c.op = "makeScenario" -> makeScenario(c)
      [] c.op = "getJobStatus" -> getJobStatus(c)
      [] c.op = "doWallpaper" -> doWallpaper(c)
      [] c.op = "getPatterns" -> getPatterns(c)

\* doWallpaper made to wait, after its response, for the job it started to end
CanSettleAfterJob(c) ==
    /\ c.phase \in {"responded", "rejected"}
    /\ (c.op = "doWallpaper" /\ c.transport = "ok" /\ c.resp.status = 200)
          => jobs[Get(c.resp.body.json, "job_id").v] \in {"succeeded", "failed"}

\* a function's chain hangs on its fetch alone: it runs once the fetch has
\* been answered or has rejected
CanSettle(c) == c.phase \in {"responded", "rejected"}

\* the .then/.catch chain runs and the function's promise settles
Settle ==
    /\ CanSettle(call)
    /\ LET p == Settled(call)
       IN  /\ call' = [call EXCEPT !.phase = "returned", !.result = p]
           /\ made' = IF call.op = "makeScenario" /\ p.state = "fulfilled"
                         /\ p.value.t = "number"
                      THEN made \cup {[id |-> p.value.v, name |-> call.args.name,
                                       description |-> call.args.description]}
                      ELSE made
    /\ UNCHANGED <<sessions, scenarios, jobs, patternIDs>>

\* the backend moves a job along queued -> running -> {succeeded | failed}
JobStart ==
    \E j \in 1..Len(jobs) :
        /\ jobs[j] = "queued"
        /\ jobs' = [jobs EXCEPT ![j] = "running"]
        /\ UNCHANGED <<sessions, scenarios, call, patternIDs, made>>

JobSucceed ==
    \E j \in 1..Len(jobs) :
        /\ jobs[j] = "running"
        /\ jobs' = [jobs EXCEPT ![j] = "succeeded"]
        /\ UNCHANGED <<sessions, scenarios, call, patternIDs, made>>

JobFail ==
    \E j \in 1..Len(jobs) :
        /\ jobs[j] = "running"
        /\ jobs' = [jobs EXCEPT ![j] = "failed"]
        /\ UNCHANGED <<sessions, scenarios, call, patternIDs, made>>

Next ==
    \/ CallCreateSession
    \/ CallGetAllScenarios
    \/ CallGetScenario
    \/ CallMakeScenario
    \/ CallGetJobStatus
    \/ CallDoWallpaper
    \/ CallGetPatterns
    \/ CallConvertToSingleLULC
    \/ CallGetWallpaperResults
    \/ CallGetLulcTableForParcel
    \/ CallGetLulcCodes
    \/ CallCreatePattern
    \/ Respond
    \/ RespondGarbled
    \/ FetchReject
    \/ Settle
    \/ JobStart
    \/ JobSucceed
    \/ JobFail

Spec == Init /\ [][Next]_vars

----------------------------------------------------------------------------
(* The parts of the client taken alone.  The client functions keep no      *)
(* state of their own, so each group meets the others only in the backend. *)

NextScenario ==
    \/ CallCreateSession
    \/ CallGetAllScenarios
    \/ CallGetScenario
    \/ CallMakeScenario
    \/ Respond
    \/ RespondGarbled
    \/ FetchReject
    \/ Settle

ScenarioSpec == Init /\ [][NextScenario]_vars

NextWallpaper ==
    \/ CallDoWallpaper
    \/ CallGetJobStatus
    \/ Respond
    \/ RespondGarbled
    \/ FetchReject
    \/ Settle
    \/ JobStart
    \/ JobSucceed
    \/ JobFail

WallpaperSpec == Init /\ [][NextWallpaper]_vars

NextLulc ==
    \/ CallGetWallpaperResults
    \/ CallGetLulcTableForParcel
    \/ CallGetLulcCodes

LulcSpec == Init /\ [][NextLulc]_vars

----------------------------------------------------------------------------
(* A caller that submits one wallpaper job and polls its status until it   *)
(* sees a terminal one, with a network that carries every call and a       *)
(* backend that keeps working.                                             *)

Terminal == {Str("succeeded"), Str("failed")}

\* the caller has seen its job end
Observed(status) ==
    /\ call.op = "getJobStatus"
    /\ call.phase = "returned"
    /\ call.result = Fulfilled(Str(status))

PollSubmit ==
    /\ jobs = <<>>
    /\ call.phase = "idle"
    /\ CallDoWallpaper

PollStatus ==
    /\ call.phase = "returned"
    /\ ~(Observed("succeeded") \/ Observed("failed"))
    /\ LET jobID == IF call.op = "doWallpaper"
                    THEN Get(call.result.value, "job_id").v
                    ELSE call.args.jobID
       IN  call' = Fetching("getJobStatus", [jobID |-> jobID],
                            getJobStatusRequest(jobID))
    /\ UNCHANGED <<sessions, scenarios, jobs, patternIDs, made>>

PollNext ==
    \/ PollSubmit
    \/ PollStatus
    \/ Respond
    \/ Settle
    \/ JobStart
    \/ JobSucceed
    \/ JobFail

PollSpec ==
    /\ Init
    /\ [][PollNext]_vars
    /\ WF_vars(PollStatus)
    /\ WF_vars(Respond)
    /\ WF_vars(Settle)
    /\ WF_vars(JobStart)
    /\ WF_vars(JobSucceed \/ JobFail)

----------------------------------------------------------------------------
(* Properties *)

Returned(op) == call.op = op /\ call.phase = "returned"

\* C1: getWallpaperResults called while the job is queued, running or failed
\* yields PreconditionFailed and never a table.
C1_ResultNeedsSucceeded ==
    (Returned("getWallpaperResults") /\ call.seen \in {"queued", "running", "failed"})
        => call.result = Rejected("PreconditionFailed")

DistinctPoints(targetCoords) == Cardinality(Range(targetCoords))

ValidSubmit(a) ==
    /\ DistinctPoints(a.targetCoords) >= 3
    /\ a.patternID \in Range(patternIDs)
    /\ a.scenarioID \in {m.id : m \in made}

\* C2: doWallpaper given fewer than 3 distinct points, or a pattern or
\* scenario id never issued, sends nothing to /wallpaper and fails with
\* InvalidArgument.
C2_SubmitValidatesBeforeWire ==
    (call.op = "doWallpaper" /\ ~ValidSubmit(call.args))
        => /\ call.fetches = 0
           /\ call.phase = "returned" => call.result = Rejected("InvalidArgument")

\* C3: every id createPattern returns differs from every id it returned
\* earlier.
C3_PatternIdsDistinct ==
    \A i, j \in DOMAIN patternIDs : i # j => patternIDs[i] # patternIDs[j]

\* C4: a call whose fetch failed, or whose response could not be decoded,
\* settles with an error and never with a value.
C4_FailureSurfaces ==
    (call.phase = "returned" /\ call.transport \in {"failed", "garbled"})
        => call.result.state = "rejected"

\* the coordinate pairs a POLYGON((...)) text spells, as pairs of texts
WKTRing(text) ==
    LET inner == SubSeq(text, 2, Len(text) - 1)
    IN  [i \in 1..((Len(inner) + 1) \div 4) |-> <<inner[4 * i - 3], inner[4 * i - 1]>>]

RingClosed(text) ==
    LET ring == WKTRing(text)
    IN  Len(ring) >= 1 /\ ring[1] = ring[Len(ring)]

\* C5: the target_parcel_wkt that doWallpaper sends for a polygon (three or
\* more distinct points, the first repeated at the end or not) is a closed
\* ring: its last coordinate pair equals its first.
C5_WktRingClosed ==
    (call.op = "doWallpaper" /\ call.fetches > 0
        /\ DistinctPoints(call.args.targetCoords) >= 3)
        => RingClosed(Get(call.req.body.json, "target_parcel_wkt").v)

JobStatuses == {"queued", "running", "succeeded", "failed"}

\* C6: getJobStatus, answered with a decodable status response, returns the
\* status that response carries, one of queued, running, succeeded, failed.
C6_StatusIsTheResponses ==
    (Returned("getJobStatus") /\ call.transport = "ok" /\ call.resp.status = 200)
        => /\ call.result = Fulfilled(Get(call.resp.body.json, "status"))
           /\ call.result.value.v \in JobStatuses

\* the category names getLulcCodes returns as values
CategoryNames == {getLulcCodes.value.v[code].v : code \in DOMAIN getLulcCodes.value.v}

\* C7: every key of a table returned by getWallpaperResults or
\* getLulcTableForParcel is a category name that getLulcCodes returns.
C7_TableKeysAreCategories ==
    ((Returned("getWallpaperResults") \/ Returned("getLulcTableForParcel"))
        /\ call.result.state = "fulfilled")
        => DOMAIN call.result.value.v \subseteq CategoryNames

C7_Witness ==
    /\ Returned("getWallpaperResults")
    /\ call.result.state = "fulfilled"
    /\ call.result.value.t = "object"
    /\ DOMAIN call.result.value.v # {}

\* C8: once the backend job has succeeded, the polling caller gets a
\* getJobStatus result that reports succeeded (and so stops polling).
C8_PollingSeesSuccess ==
    (jobs # <<>> /\ jobs[1] = "succeeded") ~> Observed("succeeded")

\* C9: getScenario on an id that makeScenario returned yields a record whose
\* name and description are the ones makeScenario was given.
C9_ScenarioRoundTrip ==
    (Returned("getScenario") /\ call.transport = "ok")
        => \A m \in made :
              m.id = call.args.id
                  => /\ Get(call.result.value, "name") = m.name
                     /\ Get(call.result.value, "description") = m.description

C9_Witness ==
    /\ Returned("getScenario")
    /\ call.transport = "ok"
    /\ \E m \in made : m.id = call.args.id /\ m.description = Str("city park")

\* C10: doWallpaper makes exactly one fetch, a POST to /wallpaper carrying
\* scenario_id, target_parcel_wkt and pattern_id, and settles as soon as that
\* fetch is answered, whatever the job's status.
C10_SubmitIsFireAndForget ==
    (call.op = "doWallpaper")
        => /\ call.fetches = 1
           /\ call.req.method = "post"
           /\ call.req.path = <<"wallpaper">>
           /\ call.req.body.kind = "json"
           /\ DOMAIN call.req.body.json.v
                 = {"scenario_id", "target_parcel_wkt", "pattern_id"}
           /\ Get(call.req.body.json, "scenario_id") = Num(call.args.scenarioID)
           /\ Get(call.req.body.json, "pattern_id") = Num(call.args.patternID)
           /\ call.phase = "responded" => ENABLED Settle

C10_Witness ==
    /\ Returned("doWallpaper")
    /\ call.transport = "ok"
    /\ call.result.state = "fulfilled"
    /\ jobs[Get(call.result.value, "job_id").v] \in {"queued", "running"}

====
